---- MODULE Spec2Model ----
(***************************************************************************)
(* Order aggregate, Money value object and their operations, from          *)
(* skills/clean-ddd-hexagonal/examples/rust (domain/order.rs,              *)
(* domain/value_objects.rs) and the place-order use case                   *)
(* (application/handler.rs).                                               *)
(*                                                                         *)
(* An i64 does not fit a TLC integer, so an i64 is a tuple of NumLimbs     *)
(* base-LimbBase digits, least significant first, in two's complement.     *)
(* `+` and `*` on i64 are the wrapping operations of a build without       *)
(* overflow checks.                                                        *)
(***************************************************************************)
EXTENDS Integers, Sequences, FiniteSets, TLC

VARIABLES order, old, ret, added, emitted, money, mret, mops,
          handlers, saves, lookups, published

vars == <<order, old, ret, added, emitted, money, mret, mops,
          handlers, saves, lookups, published>>
orderVars == <<order, old, ret, added, emitted>>
moneyVars == <<money, mret, mops>>
handlerVars == <<handlers, saves, lookups, published>>

(***************************************************************************)
(* Bounds                                                                  *)
(***************************************************************************)
MaxQuantity == 2
MaxTotalQuantity == 3
MaxMoneyOps == 2

(***************************************************************************)
(* i64 arithmetic (value_objects.rs:95, `amount: i64`)                     *)
(***************************************************************************)
NumLimbs == 8
LimbBase == 256

RECURSIVE Limbs(_, _)
Limbs(n, k) ==
    IF k = 0 THEN <<>> ELSE <<n % LimbBase>> \o Limbs(n \div LimbBase, k - 1)

BitNot(a) == [i \in 1..NumLimbs |-> (LimbBase - 1) - a[i]]

\* the i64 with the value of the 32-bit signed integer n (`n as i64`)
ToI64(n) == IF n >= 0 THEN Limbs(n, NumLimbs)
            ELSE BitNot(Limbs(-(n + 1), NumLimbs))

I64Zero == ToI64(0)
I64Max == [i \in 1..NumLimbs |-> IF i = NumLimbs THEN (LimbBase \div 2) - 1
                                                  ELSE LimbBase - 1]

\* `amount < 0`: the sign bit of the most significant digit
IsNegative(a) == a[NumLimbs] >= LimbBase \div 2

RECURSIVE AddCarry(_, _, _, _)
AddCarry(a, b, i, carry) ==
    IF i > NumLimbs THEN <<>>
    ELSE LET s == a[i] + b[i] + carry
         IN  <<s % LimbBase>> \o AddCarry(a, b, i + 1, s \div LimbBase)

\* i64 + i64
wrapping_add(a, b) == AddCarry(a, b, 1, 0)

RECURSIVE Column(_, _, _, _)
Column(a, b, k, i) ==
    IF i > k THEN 0 ELSE a[i] * b[k + 1 - i] + Column(a, b, k, i + 1)

RECURSIVE MulCarry(_, _, _, _)
MulCarry(a, b, k, carry) ==
    IF k > NumLimbs THEN <<>>
    ELSE LET s == Column(a, b, k, 1) + carry
         IN  <<s % LimbBase>> \o MulCarry(a, b, k + 1, s \div LimbBase)

\* i64 * i64
wrapping_mul(a, b) == MulCarry(a, b, 1, 0)

(***************************************************************************)
(* Currency codes: strings as tuples of characters                         *)
(***************************************************************************)
Lower == <<"d", "e", "r", "s", "u">>
Upper == <<"D", "E", "R", "S", "U">>

UpperChar(c) ==
    IF \E i \in 1..Len(Lower) : Lower[i] = c
    THEN Upper[CHOOSE i \in 1..Len(Lower) : Lower[i] = c]
    ELSE c

\* str::to_uppercase
to_uppercase(s) == [i \in 1..Len(s) |-> UpperChar(s[i])]

USD == <<"U", "S", "D">>

Currencies == {<<"u", "s", "d">>, <<"U", "S", "D">>, <<"e", "u", "r">>}

(***************************************************************************)
(* Result<T, E>                                                            *)
(***************************************************************************)
Ok(v) == [ok |-> TRUE, val |-> v]
Err(e) == [ok |-> FALSE, err |-> e]

(***************************************************************************)
(* Money                                                                   *)
(***************************************************************************)
Money(a, c) == [amount |-> a, currency |-> c]

Money_zero(currency) == Money(I64Zero, to_uppercase(currency))

Money_new(amount, currency) ==
    IF IsNegative(amount)
    THEN Err("NegativeAmount")
    ELSE Ok(Money(amount, to_uppercase(currency)))

\* add without the currency check
Money_add_NoCurrencyCheck(self, other) ==
    Ok(Money(wrapping_add(self.amount, other.amount), self.currency))

Money_add(self, other) ==
    IF self.currency # other.currency
    THEN Err("CurrencyMismatch")
    ELSE Ok(Money(wrapping_add(self.amount, other.amount), self.currency))

Money_multiply(self, factor) ==
    Money(wrapping_mul(self.amount, ToI64(factor)), self.currency)

(***************************************************************************)
(* OrderItem                                                               *)
(***************************************************************************)
OrderItem_new(product_id, quantity, unit_price) ==
    [product_id |-> product_id, quantity |-> quantity, unit_price |-> unit_price]

increase_quantity(item, amount) ==
    [item EXCEPT !.quantity = item.quantity + amount]

subtotal(item) == Money_multiply(item.unit_price, item.quantity)

(***************************************************************************)
(* Order                                                                   *)
(***************************************************************************)
OrderStatus == {"Draft", "Confirmed", "Shipped", "Cancelled"}

OrderIds == {"o1", "o2"}
CustomerIds == {"c1", "c2"}
ProductIds == {"p1", "p2"}

Created(order_id, customer_id) ==
    [type |-> "Created", order_id |-> order_id, customer_id |-> customer_id]
Confirmed(order_id, total) ==
    [type |-> "Confirmed", order_id |-> order_id, total |-> total]

\* create that pushes no event
Order_create_NoEvent(id, customer_id) ==
    [id |-> id,
     customer_id |-> customer_id,
     items |-> <<>>,
     status |-> "Draft",
     events |-> <<>>]

\* Order::create; id is the value OrderId::new() returns
Order_create(id, customer_id) ==
    [id |-> id,
     customer_id |-> customer_id,
     items |-> <<>>,
     status |-> "Draft",
     events |-> <<Created(id, customer_id)>>]

\* self.items.iter_mut().find(|i| i.product_id() == &product_id)
find(items, product_id) ==
    IF \E i \in 1..Len(items) : items[i].product_id = product_id
    THEN CHOOSE i \in 1..Len(items) :
            /\ items[i].product_id = product_id
            /\ \A j \in 1..(i - 1) : items[j].product_id # product_id
    ELSE 0

\* add_item that pushes a line item without looking for an existing one
add_item_NoMerge(self, product_id, quantity, unit_price) ==
    IF self.status = "Cancelled"
    THEN [self |-> self, res |-> Err("CannotModifyCancelled")]
    ELSE IF quantity = 0
    THEN [self |-> self, res |-> Err("InvalidQuantity")]
    ELSE [self |-> [self EXCEPT !.items =
                       Append(self.items,
                              OrderItem_new(product_id, quantity, unit_price))],
          res |-> Ok("unit")]

\* add_item without the quantity check
add_item_NoQuantityCheck(self, product_id, quantity, unit_price) ==
    IF self.status = "Cancelled"
    THEN [self |-> self, res |-> Err("CannotModifyCancelled")]
    ELSE LET i == find(self.items, product_id)
         IN  IF i # 0
             THEN [self |-> [self EXCEPT !.items[i] =
                                increase_quantity(self.items[i], quantity)],
                   res |-> Ok("unit")]
             ELSE [self |-> [self EXCEPT !.items =
                                Append(self.items,
                                       OrderItem_new(product_id, quantity,
                                                     unit_price))],
                   res |-> Ok("unit")]

\* add_item without the Cancelled check
add_item_NoCancelledCheck(self, product_id, quantity, unit_price) ==
    IF quantity = 0
    THEN [self |-> self, res |-> Err("InvalidQuantity")]
    ELSE LET i == find(self.items, product_id)
         IN  IF i # 0
             THEN [self |-> [self EXCEPT !.items[i] =
                                increase_quantity(self.items[i], quantity)],
                   res |-> Ok("unit")]
             ELSE [self |-> [self EXCEPT !.items =
                                Append(self.items,
                                       OrderItem_new(product_id, quantity,
                                                     unit_price))],
                   res |-> Ok("unit")]

\* add_item that puts the order back to Draft when it changes the items
add_item_ReopensDraft(self, product_id, quantity, unit_price) ==
    IF self.status = "Cancelled"
    THEN [self |-> self, res |-> Err("CannotModifyCancelled")]
    ELSE IF quantity = 0
    THEN [self |-> self, res |-> Err("InvalidQuantity")]
    ELSE LET i == find(self.items, product_id)
             s1 == [self EXCEPT !.status = "Draft"]
         IN  IF i # 0
             THEN [self |-> [s1 EXCEPT !.items[i] =
                                increase_quantity(self.items[i], quantity)],
                   res |-> Ok("unit")]
             ELSE [self |-> [s1 EXCEPT !.items =
                                Append(self.items,
                                       OrderItem_new(product_id, quantity,
                                                     unit_price))],
                   res |-> Ok("unit")]

\* add_item whose merge also takes the unit_price of the merging call
add_item_MergeTakesPrice(self, product_id, quantity, unit_price) ==
    IF self.status = "Cancelled"
    THEN [self |-> self, res |-> Err("CannotModifyCancelled")]
    ELSE IF quantity = 0
    THEN [self |-> self, res |-> Err("InvalidQuantity")]
    ELSE LET i == find(self.items, product_id)
         IN  IF i # 0
             THEN [self |-> [self EXCEPT !.items[i] =
                                [increase_quantity(self.items[i], quantity)
                                    EXCEPT !.unit_price = unit_price]],
                   res |-> Ok("unit")]
             ELSE [self |-> [self EXCEPT !.items =
                                Append(self.items,
                                       OrderItem_new(product_id, quantity,
                                                     unit_price))],
                   res |-> Ok("unit")]

\* Order::add_item; returns the order after the call and the value returned
add_item(self, product_id, quantity, unit_price) ==
    IF self.status = "Cancelled"
    THEN [self |-> self, res |-> Err("CannotModifyCancelled")]
    ELSE IF quantity = 0
    THEN [self |-> self, res |-> Err("InvalidQuantity")]
    ELSE LET i == find(self.items, product_id)
         IN  IF i # 0
             THEN [self |-> [self EXCEPT !.items[i] =
                                increase_quantity(self.items[i], quantity)],
                   res |-> Ok("unit")]
             ELSE [self |-> [self EXCEPT !.items =
                                Append(self.items,
                                       OrderItem_new(product_id, quantity,
                                                     unit_price))],
                   res |-> Ok("unit")]

\* the fold with unwrap_or(subtotal) in place of unwrap_or(acc)
RECURSIVE fold_total_KeepsSubtotal(_, _, _)
fold_total_KeepsSubtotal(items, i, acc) ==
    IF i > Len(items) THEN acc
    ELSE LET r == Money_add(acc, subtotal(items[i]))
         IN  fold_total_KeepsSubtotal(items, i + 1,
                                      IF r.ok THEN r.val ELSE subtotal(items[i]))

\* the closure folded by Order::total, over items[i..]
RECURSIVE fold_total(_, _, _)
fold_total(items, i, acc) ==
    IF i > Len(items) THEN acc
    ELSE LET r == Money_add(acc, subtotal(items[i]))
         IN  fold_total(items, i + 1, IF r.ok THEN r.val ELSE acc)

\* Order::total
total(self) == fold_total(self.items, 1, Money_zero(USD))

\* confirm that records a zero total in the event
confirm_ZeroTotal(self) ==
    IF self.status # "Draft"
    THEN [self |-> self, res |-> Err("InvalidState")]
    ELSE IF self.items = <<>>
    THEN [self |-> self, res |-> Err("EmptyOrder")]
    ELSE LET s1 == [self EXCEPT !.status = "Confirmed"]
         IN  [self |-> [s1 EXCEPT !.events =
                            Append(s1.events,
                                   Confirmed(s1.id, Money_zero(USD)))],
              res |-> Ok("unit")]

\* confirm without the status check
confirm_NoStatusCheck(self) ==
    IF self.items = <<>>
    THEN [self |-> self, res |-> Err("EmptyOrder")]
    ELSE LET s1 == [self EXCEPT !.status = "Confirmed"]
         IN  [self |-> [s1 EXCEPT !.events =
                            Append(s1.events, Confirmed(s1.id, total(s1)))],
              res |-> Ok("unit")]

\* confirm without the empty-order check
confirm_NoEmptyCheck(self) ==
    IF self.status # "Draft"
    THEN [self |-> self, res |-> Err("InvalidState")]
    ELSE LET s1 == [self EXCEPT !.status = "Confirmed"]
         IN  [self |-> [s1 EXCEPT !.events =
                            Append(s1.events, Confirmed(s1.id, total(s1)))],
              res |-> Ok("unit")]

\* confirm that assigns the status before the empty-order check
confirm_StatusBeforeCheck(self) ==
    IF self.status # "Draft"
    THEN [self |-> self, res |-> Err("InvalidState")]
    ELSE LET s1 == [self EXCEPT !.status = "Confirmed"]
         IN  IF self.items = <<>>
             THEN [self |-> s1, res |-> Err("EmptyOrder")]
             ELSE [self |-> [s1 EXCEPT !.events =
                                Append(s1.events, Confirmed(s1.id, total(s1)))],
                   res |-> Ok("unit")]

\* confirm that also accepts an order that is already Confirmed
confirm_Reconfirms(self) ==
    IF self.status \notin {"Draft", "Confirmed"}
    THEN [self |-> self, res |-> Err("InvalidState")]
    ELSE IF self.items = <<>>
    THEN [self |-> self, res |-> Err("EmptyOrder")]
    ELSE LET s1 == [self EXCEPT !.status = "Confirmed"]
         IN  [self |-> [s1 EXCEPT !.events =
                            Append(s1.events, Confirmed(s1.id, total(s1)))],
              res |-> Ok("unit")]

\* Order::confirm
confirm(self) ==
    IF self.status # "Draft"
    THEN [self |-> self, res |-> Err("InvalidState")]
    ELSE IF self.items = <<>>
    THEN [self |-> self, res |-> Err("EmptyOrder")]
    ELSE LET s1 == [self EXCEPT !.status = "Confirmed"]
         IN  [self |-> [s1 EXCEPT !.events =
                            Append(s1.events, Confirmed(s1.id, total(s1)))],
              res |-> Ok("unit")]

\* clear_events that removes the oldest event only
clear_events_DropsOldest(self) ==
    [self EXCEPT !.events = IF @ = <<>> THEN <<>> ELSE Tail(@)]

\* AggregateRoot::clear_events
clear_events(self) == [self EXCEPT !.events = <<>>]

(***************************************************************************)
(* Inputs                                                                  *)
(***************************************************************************)
Quantities == 0..MaxQuantity

\* unit prices: values Money::new returns
Prices ==
    {Money_new(ToI64(2999), <<"u", "s", "d">>).val,
     Money_new(ToI64(500), <<"e", "u", "r">>).val,
     Money_new(I64Max, <<"U", "S", "D">>).val}

NoCall == [op |-> "none"]

RECURSIVE TotalQuantity(_)
TotalQuantity(items) ==
    IF items = <<>> THEN 0
    ELSE Head(items).quantity + TotalQuantity(Tail(items))

\* i64 amounts and i32 factors handed to the Money operations
Amounts == {ToI64(0), ToI64(1), ToI64(2999), I64Max, ToI64(-1)}
Factors == {-1, 0, 1, 2, 2147483647}

\* the orders OrderRepository::find_by_id hands back
LoadedItems ==
    {<<>>,
     <<OrderItem_new("p1", 1, Money_new(ToI64(2999), USD).val)>>,
     <<OrderItem_new("p2", 1, Money_new(ToI64(500), <<"e", "u", "r">>).val),
       OrderItem_new("p1", 1, Money_new(ToI64(2999), USD).val)>>}

\* one invocation of PlaceOrderHandler::handle: not called
Handlers == {1, 2}
NoOrder == [id |-> "none"]
IdleHandler == [pc |-> "idle", order |-> NoOrder]

\* the parts of the state an aggregate, Money or handler run leaves alone
OrderIdle ==
    /\ order = Order_create("o1", "c1")
    /\ old = order
    /\ ret = NoCall
    /\ added = [p \in ProductIds |-> 0]
    /\ emitted = order.events

MoneyIdle ==
    /\ money = Money_zero(USD)
    /\ mret = NoCall
    /\ mops = 0

HandlersIdle ==
    /\ handlers = [i \in Handlers |-> IdleHandler]
    /\ saves = <<>>
    /\ lookups = <<>>
    /\ published = <<>>

\* the events self.events.push added to the log during a call
Pushed(before, after) ==
    IF Len(after.events) > Len(before.events)
    THEN SubSeq(after.events, Len(before.events) + 1, Len(after.events))
    ELSE <<>>

(***************************************************************************)
(* Actions of the aggregate                                                *)
(***************************************************************************)
Init ==
    /\ \E id \in OrderIds, c \in CustomerIds :
          /\ order = Order_create(id, c)
          /\ ret = [op |-> "create", customer_id |-> c]
    /\ old = order
    /\ added = [p \in ProductIds |-> 0]
    /\ emitted = order.events
    /\ MoneyIdle
    /\ HandlersIdle

AddItem ==
    \E p \in ProductIds, q \in Quantities, price \in Prices :
        LET r == add_item(order, p, q, price)
        IN  /\ TotalQuantity(order.items) + q <= MaxTotalQuantity
            /\ order' = r.self
            /\ old' = order
            /\ ret' = [op |-> "add_item", product_id |-> p, quantity |-> q,
                       unit_price |-> price, res |-> r.res]
            /\ added' = IF r.res.ok THEN [added EXCEPT ![p] = @ + q] ELSE added
            /\ emitted' = emitted \o Pushed(order, r.self)
            /\ UNCHANGED <<moneyVars, handlerVars>>

Confirm ==
    LET r == confirm(order)
    IN  /\ order' = r.self
        /\ old' = order
        /\ ret' = [op |-> "confirm", res |-> r.res]
        /\ emitted' = emitted \o Pushed(order, r.self)
        /\ UNCHANGED <<added, moneyVars, handlerVars>>

Total ==
    /\ ret' = [op |-> "total", res |-> total(order)]
    /\ old' = order
    /\ UNCHANGED <<order, added, emitted, moneyVars, handlerVars>>

ClearEvents ==
    /\ order' = clear_events(order)
    /\ old' = order
    /\ ret' = [op |-> "clear_events"]
    /\ UNCHANGED <<added, emitted, moneyVars, handlerVars>>

Next == AddItem \/ Confirm \/ Total \/ ClearEvents

Spec == Init /\ [][Next]_vars

(***************************************************************************)
(* The aggregate as reconstituted from persistence, in any status: no      *)
(* uncommitted events, and items present once it has been confirmed        *)
(***************************************************************************)
InitLoaded ==
    /\ \E id \in OrderIds, c \in CustomerIds, st \in OrderStatus,
          its \in LoadedItems :
          /\ st \in {"Confirmed", "Shipped"} => its # <<>>
          /\ order = [id |-> id, customer_id |-> c, items |-> its,
                      status |-> st, events |-> <<>>]
    /\ old = order
    /\ ret = NoCall
    /\ added = [p \in ProductIds |-> 0]
    /\ emitted = order.events
    /\ MoneyIdle
    /\ HandlersIdle

SpecLoaded == InitLoaded /\ [][Next]_vars

(***************************************************************************)
(* Money values obtainable through new, zero, add and multiply             *)
(***************************************************************************)
MoneyOperands ==
    {Money_new(a, c).val : a \in {x \in Amounts : ~IsNegative(x)},
                           c \in Currencies}

InitMoney ==
    /\ OrderIdle
    /\ HandlersIdle
    /\ \E c \in Currencies : money = Money_zero(c)
    /\ mret = [op |-> "zero"]
    /\ mops = 0

MoneyNew ==
    \E a \in Amounts, c \in Currencies :
        LET r == Money_new(a, c)
        IN  /\ mops < MaxMoneyOps
            /\ money' = IF r.ok THEN r.val ELSE money
            /\ mret' = [op |-> "new", amount |-> a, currency |-> c, res |-> r]
            /\ mops' = mops + 1
            /\ UNCHANGED <<orderVars, handlerVars>>

MoneyZero ==
    \E c \in Currencies :
        /\ mops < MaxMoneyOps
        /\ money' = Money_zero(c)
        /\ mret' = [op |-> "zero", currency |-> c]
        /\ mops' = mops + 1
        /\ UNCHANGED <<orderVars, handlerVars>>

MoneyAdd ==
    \E other \in MoneyOperands \cup {money} :
        LET r == Money_add(money, other)
        IN  /\ mops < MaxMoneyOps
            /\ money' = IF r.ok THEN r.val ELSE money
            /\ mret' = [op |-> "add", self |-> money, other |-> other,
                        res |-> r]
            /\ mops' = mops + 1
            /\ UNCHANGED <<orderVars, handlerVars>>

MoneyMultiply ==
    \E f \in Factors :
        /\ mops < MaxMoneyOps
        /\ money' = Money_multiply(money, f)
        /\ mret' = [op |-> "multiply", self |-> money, factor |-> f]
        /\ mops' = mops + 1
        /\ UNCHANGED <<orderVars, handlerVars>>

NextMoney == MoneyNew \/ MoneyZero \/ MoneyAdd \/ MoneyMultiply

SpecMoney == InitMoney /\ [][NextMoney]_vars

(***************************************************************************)
(* Identifiers and their text form                                         *)
(***************************************************************************)
\* Uuid::to_string: the text of a uuid
Uuid_to_string(u) == <<"uuid", u>>

\* Uuid::parse_str
Uuid_parse_str(s) == IF s[1] = "uuid" THEN Ok(s[2]) ELSE Err("InvalidFormat")

\* OrderId::as_str
OrderId_as_str(id) == Uuid_to_string(id)

CustomerId_from_string(s) == Uuid_parse_str(s)
ProductId_from_string(s) == Uuid_parse_str(s)

(***************************************************************************)
(* PlaceOrderHandler::handle                                               *)
(***************************************************************************)
MaxCmdItems == 2

Some(v) == [some |-> TRUE, val |-> v]
None == [some |-> FALSE]

CustomerTexts == {Uuid_to_string("c1"), <<"junk", "c">>}

\* product ids in text form: well-formed and malformed, known and unknown
ProductTexts ==
    {Uuid_to_string("p1"), Uuid_to_string("p2"), Uuid_to_string("p9"),
     <<"junk", "a">>, <<"junk", "b">>}

\* what ProductRepository::find_by_id answers when it does not fail
Catalog(product_id) ==
    CASE product_id = Uuid_to_string("p1") ->
            Some([price |-> Money_new(ToI64(2999), USD).val])
      [] product_id = Uuid_to_string("p2") ->
            Some([price |-> Money_new(ToI64(500), <<"e", "u", "r">>).val])
      [] product_id = <<"junk", "a">> ->
            Some([price |-> Money_new(ToI64(1), USD).val])
      [] OTHER -> None

PlaceOrderItem == [product_id : ProductTexts, quantity : 0..1]

RECURSIVE SeqsUpTo(_, _)
SeqsUpTo(S, n) ==
    IF n = 0 THEN {<<>>}
    ELSE LET shorter == SeqsUpTo(S, n - 1)
         IN  shorter \cup {Append(q, x) : q \in shorter, x \in S}

PlaceOrderCommand ==
    [customer_id : CustomerTexts, items : SeqsUpTo(PlaceOrderItem, MaxCmdItems)]

\* the ids of the orders the invocations hold
HeldIds == {handlers[j].order.id : j \in Handlers}

Return(hd, res) == [hd EXCEPT !.pc = "done", !.res = res]

\* handle, to its first await, without the customer id check
HandleStart_NoCustomerCheck(i) ==
    /\ handlers[i].pc = "start"
    /\ LET hd == handlers[i]
       IN  \E id \in OrderIds \ HeldIds :
                handlers' = [handlers EXCEPT ![i] =
                    [hd EXCEPT !.order = Order_create(id, hd.cmd.customer_id[2]),
                               !.pc = IF hd.cmd.items = <<>>
                                      THEN "save" ELSE "item"]]
    /\ UNCHANGED <<saves, lookups, published, orderVars, moneyVars>>

\* handle, to its first await, refusing a command without items
HandleStart_RejectsEmpty(i) ==
    /\ handlers[i].pc = "start"
    /\ LET hd == handlers[i]
           customer_id == CustomerId_from_string(hd.cmd.customer_id)
       IN  IF ~customer_id.ok
           THEN handlers' = [handlers EXCEPT ![i] =
                    Return(hd, Err([type |-> "InvalidCustomerId"]))]
           ELSE \E id \in OrderIds \ HeldIds :
                    handlers' = [handlers EXCEPT ![i] =
                        IF hd.cmd.items = <<>>
                        THEN Return([hd EXCEPT !.order =
                                        Order_create(id, customer_id.val)],
                                    Err([type |-> "Order",
                                         source |-> "EmptyOrder"]))
                        ELSE [hd EXCEPT !.order =
                                  Order_create(id, customer_id.val),
                                        !.pc = "item"]]
    /\ UNCHANGED <<saves, lookups, published, orderVars, moneyVars>>

\* handle, to its first await: the customer id is parsed and the order created
HandleStart(i) ==
    /\ handlers[i].pc = "start"
    /\ LET hd == handlers[i]
           customer_id == CustomerId_from_string(hd.cmd.customer_id)
       IN  IF ~customer_id.ok
           THEN handlers' = [handlers EXCEPT ![i] =
                    Return(hd, Err([type |-> "InvalidCustomerId"]))]
           ELSE \E id \in OrderIds \ HeldIds :
                    handlers' = [handlers EXCEPT ![i] =
                        [hd EXCEPT !.order = Order_create(id, customer_id.val),
                                   !.pc = IF hd.cmd.items = <<>>
                                          THEN "save" ELSE "item"]]
    /\ UNCHANGED <<saves, lookups, published, orderVars, moneyVars>>

\* the invocation after a turn of the loop that went through
Continue(hd, o) ==
    [hd EXCEPT !.order = o,
               !.idx = hd.idx + 1,
               !.pc = IF hd.idx = Len(hd.cmd.items) THEN "save" ELSE "item"]

\* the loop body with the result of add_item dropped
loop_body_IgnoresAddItem(hd, found) ==
    LET item == hd.cmd.items[hd.idx]
    IN  IF ~found.ok
        THEN Return(hd, Err([type |-> "Repository", source |-> found.err]))
        ELSE IF ~found.val.some
        THEN Return(hd, Err([type |-> "ProductNotFound",
                             product_id |-> item.product_id]))
        ELSE LET product == found.val.val
                 product_id == ProductId_from_string(item.product_id)
             IN  IF ~product_id.ok
                 THEN Return(hd, Err([type |-> "InvalidProductId"]))
                 ELSE Continue(hd, add_item(hd.order, product_id.val,
                                            item.quantity, product.price).self)

\* the loop body with the product id parsed before the lookup is examined
loop_body_ParsesFirst(hd, found) ==
    LET item == hd.cmd.items[hd.idx]
        product_id == ProductId_from_string(item.product_id)
    IN  IF ~product_id.ok
        THEN Return(hd, Err([type |-> "InvalidProductId"]))
        ELSE IF ~found.ok
        THEN Return(hd, Err([type |-> "Repository", source |-> found.err]))
        ELSE IF ~found.val.some
        THEN Return(hd, Err([type |-> "ProductNotFound",
                             product_id |-> item.product_id]))
        ELSE LET product == found.val.val
                 r == add_item(hd.order, product_id.val, item.quantity,
                               product.price)
             IN  IF ~r.res.ok
                 THEN Return([hd EXCEPT !.order = r.self],
                             Err([type |-> "Order", source |-> r.res.err]))
                 ELSE Continue(hd, r.self)

\* the body of `for item in cmd.items`, from the answer of find_by_id on
loop_body(hd, found) ==
    LET item == hd.cmd.items[hd.idx]
    IN  IF ~found.ok
        THEN Return(hd, Err([type |-> "Repository", source |-> found.err]))
        ELSE IF ~found.val.some
        THEN Return(hd, Err([type |-> "ProductNotFound",
                             product_id |-> item.product_id]))
        ELSE LET product == found.val.val
                 product_id == ProductId_from_string(item.product_id)
             IN  IF ~product_id.ok
                 THEN Return(hd, Err([type |-> "InvalidProductId"]))
                 ELSE LET r == add_item(hd.order, product_id.val,
                                        item.quantity, product.price)
                      IN  IF ~r.res.ok
                          THEN Return([hd EXCEPT !.order = r.self],
                                      Err([type |-> "Order",
                                           source |-> r.res.err]))
                          ELSE Continue(hd, r.self)

\* one turn of the loop on an order kept in the handler and shared by its
\* invocations, in place of the local `order` of each call
HandleItem_SharedOrder(i) ==
    /\ handlers[i].pc = "item"
    /\ LET shared == IF handlers[1].order # NoOrder THEN handlers[1].order
                     ELSE handlers[i].order
           hd == [handlers[i] EXCEPT !.order = shared]
           item == hd.cmd.items[hd.idx]
       IN  /\ lookups' = Append(lookups,
                                [by |-> i, product_id |-> item.product_id])
           /\ \E found \in {Ok(Catalog(item.product_id)), Err("Database")} :
                handlers' = [handlers EXCEPT ![i] = loop_body(hd, found)]
    /\ UNCHANGED <<saves, published, orderVars, moneyVars>>

\* one turn of the loop: product_repo.find_by_id(..).await, then the body
HandleItem(i) ==
    /\ handlers[i].pc = "item"
    /\ LET hd == handlers[i]
           item == hd.cmd.items[hd.idx]
       IN  /\ lookups' = Append(lookups,
                                [by |-> i, product_id |-> item.product_id])
           /\ \E found \in {Ok(Catalog(item.product_id)), Err("Database")} :
                handlers' = [handlers EXCEPT ![i] = loop_body(hd, found)]
    /\ UNCHANGED <<saves, published, orderVars, moneyVars>>

\* the save of an order whose events were cleared first
HandleSave_ClearsEvents(i) ==
    /\ handlers[i].pc = "save"
    /\ LET hd == [handlers[i] EXCEPT !.order = clear_events(@)]
       IN  \E saved \in {Ok("unit"), Err("Database")} :
            /\ saves' = Append(saves, [by |-> i, order |-> hd.order,
                                       res |-> saved])
            /\ handlers' = [handlers EXCEPT ![i] =
                    IF ~saved.ok
                    THEN Return(hd, Err([type |-> "Repository",
                                         source |-> saved.err]))
                    ELSE Return(hd, Ok(OrderId_as_str(hd.order.id)))]
    /\ UNCHANGED <<lookups, published, orderVars, moneyVars>>

\* order_repo.save(&order).await, then the return
HandleSave(i) ==
    /\ handlers[i].pc = "save"
    /\ LET hd == handlers[i]
       IN  \E saved \in {Ok("unit"), Err("Database")} :
            /\ saves' = Append(saves, [by |-> i, order |-> hd.order,
                                       res |-> saved])
            /\ handlers' = [handlers EXCEPT ![i] =
                    IF ~saved.ok
                    THEN Return(hd, Err([type |-> "Repository",
                                         source |-> saved.err]))
                    ELSE Return(hd, Ok(OrderId_as_str(hd.order.id)))]
    /\ UNCHANGED <<lookups, published, orderVars, moneyVars>>

Called(cmd) == [pc |-> "start", cmd |-> cmd, order |-> NoOrder, idx |-> 1,
                res |-> Err([type |-> "none"])]

\* one invocation of handle, with any command
InitHandler ==
    /\ \E cmd \in PlaceOrderCommand :
          handlers = [i \in Handlers |-> IF i = 1 THEN Called(cmd)
                                               ELSE IdleHandler]
    /\ saves = <<>>
    /\ lookups = <<>>
    /\ published = <<>>
    /\ OrderIdle
    /\ MoneyIdle

NextHandler ==
    \E i \in Handlers : HandleStart(i) \/ HandleItem(i) \/ HandleSave(i)

SpecHandler == InitHandler /\ [][NextHandler]_vars

\* the commands of the concurrent invocations: any customer id, items of
\* quantity 1 whose product ids are well-formed
ConcurrentCommands ==
    {cmd \in PlaceOrderCommand :
        \A k \in 1..Len(cmd.items) :
            /\ cmd.items[k].quantity = 1
            /\ cmd.items[k].product_id[1] = "uuid"}

\* two invocations of handle on the one handler (handle takes &self and the
\* repositories are Arc<dyn .. + Send + Sync>), interleaved at their awaits
InitConcurrent ==
    /\ \E cmd1 \in ConcurrentCommands, cmd2 \in ConcurrentCommands :
          handlers = [i \in Handlers |-> IF i = 1 THEN Called(cmd1)
                                               ELSE Called(cmd2)]
    /\ saves = <<>>
    /\ lookups = <<>>
    /\ published = <<>>
    /\ OrderIdle
    /\ MoneyIdle

SpecConcurrent == InitConcurrent /\ [][NextHandler]_vars

(***************************************************************************)
(* Properties                                                              *)
(***************************************************************************)
IsOk(r) == r.ok
IsErr(r, e) == ~r.ok /\ r.err = e

\* C1: confirm() on a Draft order with at least one item succeeds, sets the
\* status to Confirmed and appends, after the existing events, exactly one
\* Confirmed event carrying the order's id and the value total() had before
\* the call; the items are unchanged.
C1_ConfirmDraftWithItems ==
    (ret.op = "confirm" /\ old.status = "Draft" /\ old.items # <<>>) =>
        /\ IsOk(ret.res)
        /\ order.status = "Confirmed"
        /\ order.events = Append(old.events, Confirmed(order.id, total(old)))
        /\ order.items = old.items

C1_Witness ==
    /\ ret.op = "confirm"
    /\ old.status = "Draft"
    /\ Len(old.items) = 2
    /\ old.events # <<>>
    /\ order.status = "Confirmed"
    /\ total(old) # Money_zero(USD)

\* C2: in the states reachable from create by add_item, confirm and
\* clear_events, confirm() on an order without items fails with EmptyOrder
\* and confirm() on an order that is not Draft fails with InvalidState; both
\* leave status, items and events as they were.
C2_ConfirmFailures ==
    /\ (ret.op = "confirm" /\ old.items = <<>>) =>
            (IsErr(ret.res, "EmptyOrder") /\ order = old)
    /\ (ret.op = "confirm" /\ old.status # "Draft") =>
            (IsErr(ret.res, "InvalidState") /\ order = old)

C2_Witness ==
    /\ ret.op = "confirm"
    /\ old.status = "Confirmed"
    /\ IsErr(ret.res, "InvalidState")
    /\ old.events # <<>>

\* C3: a Confirmed order has at least one item, and a call that leaves the
\* order Confirmed when it was not started from a Draft order.
C3_ConfirmedOnlyFromDraftWithItems ==
    /\ order.status = "Confirmed" => order.items # <<>>
    /\ (order.status = "Confirmed" /\ old.status # "Confirmed") =>
            (old.status = "Draft" /\ ret.op = "confirm")

C3_Witness ==
    /\ ret.op = "confirm"
    /\ old.status = "Draft"
    /\ order.status = "Confirmed"
    /\ order.items # <<>>

\* C4: after any sequence of successful add_item calls, no two items have
\* the same product_id, the quantity of a product's item is the sum of the
\* quantities of the add_item calls made for it, and the number of items is
\* the number of distinct products added.
C4_ItemsMergedByProduct ==
    /\ \A i, j \in 1..Len(order.items) :
            order.items[i].product_id = order.items[j].product_id => i = j
    /\ \A q \in ProductIds :
            added[q] > 0 =>
                \E i \in 1..Len(order.items) :
                    /\ order.items[i].product_id = q
                    /\ order.items[i].quantity = added[q]
    /\ Len(order.items) = Cardinality({q \in ProductIds : added[q] > 0})

C4_Witness ==
    /\ ret.op = "add_item"
    /\ IsOk(ret.res)
    /\ find(old.items, ret.product_id) # 0
    /\ Len(order.items) = 2
    /\ added[ret.product_id] > ret.quantity

\* C5 as stated: add_item with quantity 0 leaves the order unchanged and
\* yields InvalidQuantity, whatever the order's status.
C5_ZeroQuantityAlwaysInvalidQuantity ==
    (ret.op = "add_item" /\ ret.quantity = 0) =>
        (IsErr(ret.res, "InvalidQuantity") /\ order = old)

\* C5 amended: add_item with quantity 0 leaves the order unchanged; it
\* yields CannotModifyCancelled on a Cancelled order and InvalidQuantity on
\* an order in any other status.
C5_ZeroQuantityRejected ==
    (ret.op = "add_item" /\ ret.quantity = 0) =>
        /\ order = old
        /\ IF old.status = "Cancelled"
           THEN IsErr(ret.res, "CannotModifyCancelled")
           ELSE IsErr(ret.res, "InvalidQuantity")

C5_Witness ==
    /\ ret.op = "add_item"
    /\ ret.quantity = 0
    /\ old.status = "Cancelled"
    /\ old.items # <<>>

\* C6: add_item changes the items only of a Draft order; on a confirmed
\* order it adds no line item and increases no quantity.
C6_OnlyDraftModified ==
    (ret.op = "add_item" /\ old.status # "Draft") => order.items = old.items

\* C7: on a Cancelled order add_item fails with CannotModifyCancelled for
\* every product and quantity, confirm fails, and both leave items, status
\* and events unchanged.
C7_CancelledIsFrozen ==
    /\ (ret.op = "add_item" /\ old.status = "Cancelled") =>
            (IsErr(ret.res, "CannotModifyCancelled") /\ order = old)
    /\ (ret.op = "confirm" /\ old.status = "Cancelled") =>
            (~IsOk(ret.res) /\ order = old)

C7_Witness ==
    /\ ret.op = "add_item"
    /\ old.status = "Cancelled"
    /\ ret.quantity > 0
    /\ find(old.items, ret.product_id) # 0

\* C8: a call of add_item or confirm either returns Ok with its whole effect
\* applied, or returns an error and leaves id, customer_id, items, status and
\* events as before; confirm changes the status exactly when it appends the
\* Confirmed event.
C8_NoPartialMutation ==
    /\ (ret.op \in {"add_item", "confirm"} /\ ~IsOk(ret.res)) => order = old
    /\ (ret.op = "add_item" /\ IsOk(ret.res)) =>
            /\ order.items # old.items
            /\ TotalQuantity(order.items) =
                    TotalQuantity(old.items) + ret.quantity
            /\ order = [old EXCEPT !.items = order.items]
    /\ (ret.op = "confirm" /\ IsOk(ret.res)) =>
            /\ order.status = "Confirmed"
            /\ old.status # "Confirmed"
            /\ Len(order.events) = Len(old.events) + 1
            /\ order.events[Len(order.events)].type = "Confirmed"
            /\ order = [old EXCEPT !.status = order.status,
                                   !.events = order.events]
    /\ ret.op = "confirm" =>
            ((order.status # old.status) <=> (order.events # old.events))

C8_Witness ==
    /\ ret.op = "confirm"
    /\ IsErr(ret.res, "EmptyOrder")
    /\ old.status = "Draft"
    /\ old.events # <<>>

\* C9: every Money value obtained through new, zero, add and multiply has
\* amount >= 0.
C9_AmountNonNegative == ~IsNegative(money.amount)

\* the wrapping sum of the subtotals of the items priced in USD, last first
RECURSIVE UsdSubtotals(_)
UsdSubtotals(items) ==
    IF items = <<>> THEN I64Zero
    ELSE LET it == items[Len(items)]
             rest == UsdSubtotals(SubSeq(items, 1, Len(items) - 1))
         IN  IF it.unit_price.currency = USD
             THEN wrapping_add(wrapping_mul(it.unit_price.amount,
                                            ToI64(it.quantity)), rest)
             ELSE rest

\* C10: total() returns a Money in USD whose amount is the sum of the
\* subtotals (unit_price x quantity) of exactly the items priced in USD; an
\* item in another currency leaves the accumulator unchanged.
C10_TotalSumsUsdItems ==
    ret.op = "total" => ret.res = Money(UsdSubtotals(old.items), USD)

C10_Witness ==
    /\ ret.op = "total"
    /\ \E i, j \in 1..Len(old.items) :
            /\ i < j
            /\ old.items[i].unit_price.currency = USD
            /\ old.items[j].unit_price.currency # USD
    /\ ret.res # Money_zero(USD)

(***************************************************************************)
(* Properties of PlaceOrderHandler::handle                                 *)
(***************************************************************************)
SavesBy(i) == LET Mine(x) == x.by = i IN SelectSeq(saves, Mine)
LookupsBy(i) == LET Mine(x) == x.by = i IN SelectSeq(lookups, Mine)

Returned(i) == handlers[i].pc = "done"
ReturnedOk(i) == Returned(i) /\ handlers[i].res.ok
ReturnedErr(i, type) ==
    Returned(i) /\ ~handlers[i].res.ok /\ handlers[i].res.err.type = type

\* an item the loop body gets through: its product is known, its id is
\* well-formed and its quantity is not zero
Passes(item) ==
    /\ Catalog(item.product_id).some
    /\ item.product_id[1] = "uuid"
    /\ item.quantity > 0

RECURSIVE QuantityOrdered(_)
QuantityOrdered(items) ==
    IF items = <<>> THEN 0
    ELSE Head(items).quantity + QuantityOrdered(Tail(items))

\* C11: when handle returns Ok(id), save was called exactly once, with an
\* order whose id in text form is id, whose status is Draft and whose event
\* log is exactly one Created event.
C11_OkMeansSavedDraftOnce ==
    \A i \in Handlers :
        ReturnedOk(i) =>
            /\ Len(SavesBy(i)) = 1
            /\ LET o == SavesBy(i)[1].order
               IN  /\ <<"uuid", o.id>> = handlers[i].res.val
                   /\ o.status = "Draft"
                   /\ Len(o.events) = 1
                   /\ o.events[1].type = "Created"
                   /\ o.events[1].order_id = o.id

C11_Witness ==
    /\ ReturnedOk(1)
    /\ Len(handlers[1].cmd.items) = 2
    /\ Len(saves) = 1
    /\ Len(saves[1].order.items) = 2

\* C12: save is called at most once and only after every requested item was
\* looked up, parsed and added; when the customer id, a lookup, a product id
\* or add_item fails, save is not called; a failed save is returned as a
\* Repository error.
C12_SaveOnceAfterAllItems ==
    \A i \in Handlers :
        LET hd == handlers[i]
        IN  /\ Len(SavesBy(i)) <= 1
            /\ Len(SavesBy(i)) = 1 =>
                /\ Returned(i)
                /\ Len(LookupsBy(i)) = Len(hd.cmd.items)
                /\ \A k \in 1..Len(hd.cmd.items) : Passes(hd.cmd.items[k])
                /\ TotalQuantity(SavesBy(i)[1].order.items) =
                        QuantityOrdered(hd.cmd.items)
                /\ IF SavesBy(i)[1].res.ok
                   THEN ReturnedOk(i)
                   ELSE ReturnedErr(i, "Repository")
            /\ (Returned(i) /\ Len(SavesBy(i)) = 0) =>
                /\ ~hd.res.ok
                /\ \/ ~CustomerId_from_string(hd.cmd.customer_id).ok
                   \/ ReturnedErr(i, "Repository")
                   \/ ~Passes(hd.cmd.items[Len(LookupsBy(i))])

C12_Witness ==
    /\ ReturnedErr(1, "Order")
    /\ Len(lookups) = 2
    /\ saves = <<>>

\* the first item of a command the loop body does not get through, or 0
FirstFailing(items) ==
    IF \E k \in 1..Len(items) : ~Passes(items[k])
    THEN CHOOSE k \in 1..Len(items) :
            /\ ~Passes(items[k])
            /\ \A j \in 1..(k - 1) : Passes(items[j])
    ELSE 0

\* C13: items are processed in command order, the lookup before the parse:
\* an unknown product yields ProductNotFound with its id text even when the
\* text is malformed, InvalidProductId is returned only for a known product
\* with a malformed id, and no item after the first failing one is looked up.
C13_LookupBeforeParse ==
    \A i \in Handlers :
        LET hd == handlers[i]
            n == Len(LookupsBy(i))
        IN  hd.pc # "idle" =>
            /\ n <= Len(hd.cmd.items)
            /\ \A k \in 1..n :
                    LookupsBy(i)[k].product_id = hd.cmd.items[k].product_id
            /\ FirstFailing(hd.cmd.items) # 0 =>
                    n <= FirstFailing(hd.cmd.items)
            /\ ReturnedErr(i, "ProductNotFound") =>
                    /\ n = FirstFailing(hd.cmd.items)
                    /\ hd.res.err.product_id = hd.cmd.items[n].product_id
                    /\ ~Catalog(hd.cmd.items[n].product_id).some
            /\ ReturnedErr(i, "InvalidProductId") =>
                    /\ n = FirstFailing(hd.cmd.items)
                    /\ Catalog(hd.cmd.items[n].product_id).some
                    /\ hd.cmd.items[n].product_id[1] # "uuid"
            /\ (Returned(i) /\ n > 0 /\ ~Catalog(hd.cmd.items[n].product_id).some
                    /\ ~ReturnedErr(i, "Repository")) =>
                    ReturnedErr(i, "ProductNotFound")

C13_Witness ==
    /\ ReturnedErr(1, "ProductNotFound")
    /\ handlers[1].res.err.product_id = <<"junk", "b">>
    /\ Len(handlers[1].cmd.items) = 2
    /\ Len(lookups) = 1

\* C14: with a malformed customer_id handle returns InvalidCustomerId; no
\* order is created and neither the product lookup nor save is called,
\* whatever the items.
C14_MalformedCustomerRejected ==
    \A i \in Handlers :
        LET hd == handlers[i]
        IN  (hd.pc # "idle" /\ hd.cmd.customer_id[1] # "uuid") =>
                /\ hd.order = NoOrder
                /\ LookupsBy(i) = <<>>
                /\ SavesBy(i) = <<>>
                /\ hd.pc \in {"start", "done"}
                /\ Returned(i) => ReturnedErr(i, "InvalidCustomerId")

C14_Witness ==
    /\ ReturnedErr(1, "InvalidCustomerId")
    /\ Len(handlers[1].cmd.items) = 2
    /\ Passes(handlers[1].cmd.items[1])

\* C15: once handle has persisted the aggregate, the order's collected
\* domain events have been handed to a publisher before handle returns.
C15_EventsPublishedAfterSave ==
    \A i \in Handlers :
        ReturnedOk(i) =>
            \A k \in 1..Len(handlers[i].order.events) :
                \E j \in 1..Len(published) :
                    published[j] = handlers[i].order.events[k]

(***************************************************************************)
(* Properties of the event log, Money::add, create and the lifecycle       *)
(***************************************************************************)
\* C16: clear_events leaves the event list empty, a second call changes
\* nothing more, and id, customer_id, items and status are unchanged.
C16_ClearEventsEmptiesIdempotent ==
    ret.op = "clear_events" =>
        /\ order.events = <<>>
        /\ clear_events(order) = order
        /\ order.id = old.id
        /\ order.customer_id = old.customer_id
        /\ order.items = old.items
        /\ order.status = old.status

C16_Witness ==
    /\ ret.op = "clear_events"
    /\ Len(old.events) = 2
    /\ old.status = "Confirmed"

\* C17: Money::add of two values of one currency gives that currency and
\* the sum of the amounts, whichever the argument order and however three
\* values are grouped; for two currencies it fails with CurrencyMismatch in
\* either argument order.
C17_AddCommutativeAssociative ==
    mret.op = "add" =>
        LET a == mret.self
            b == mret.other
        IN  IF a.currency = b.currency
            THEN /\ IsOk(mret.res)
                 /\ mret.res.val.currency = a.currency
                 /\ mret.res.val.amount = wrapping_add(b.amount, a.amount)
                 /\ Money_add(b, a) = mret.res
                 /\ \A c \in MoneyOperands :
                        c.currency = a.currency =>
                            Money_add(mret.res.val, c) =
                                Money_add(a, Money_add(b, c).val)
            ELSE /\ IsErr(mret.res, "CurrencyMismatch")
                 /\ IsErr(Money_add(b, a), "CurrencyMismatch")

C17_Witness ==
    /\ mret.op = "add"
    /\ mret.self.currency = mret.other.currency
    /\ mret.self.amount # mret.other.amount
    /\ mret.self.amount # I64Zero
    /\ mret.other.amount # I64Zero

\* C18: create(customer_id) returns a Draft order without items whose event
\* log is exactly one Created event, with the new order's id and the
\* customer_id given.
C18_CreateDraftWithCreatedEvent ==
    ret.op = "create" =>
        /\ order.status = "Draft"
        /\ order.items = <<>>
        /\ order.customer_id = ret.customer_id
        /\ Len(order.events) = 1
        /\ order.events[1].type = "Created"
        /\ order.events[1].order_id = order.id
        /\ order.events[1].customer_id = ret.customer_id

C18_Witness ==
    /\ ret.op = "create"
    /\ ret.customer_id = "c2"
    /\ order.id = "o2"

\* C19: the status is always Draft or Confirmed, the only change of status
\* is Draft -> Confirmed, and a Confirmed order stays Confirmed.
C19_OnlyDraftToConfirmed ==
    /\ order.status \in {"Draft", "Confirmed"}
    /\ old.status = "Confirmed" => order.status = "Confirmed"
    /\ order.status # old.status =>
            (old.status = "Draft" /\ order.status = "Confirmed")

C19_Witness ==
    /\ old.status = "Confirmed"
    /\ ret.op = "add_item"
    /\ IsOk(ret.res)
    /\ order.items # old.items

IsPrefix(s, t) == Len(s) <= Len(t) /\ SubSeq(t, 1, Len(s)) = s

\* C20: all the events an order ever emits, cleared ones included, are one
\* Created event at creation followed by at most one Confirmed event;
\* add_item emits none, and between clears the log only grows at its end.
C20_CreatedThenAtMostOneConfirmed ==
    /\ Len(emitted) \in {1, 2}
    /\ emitted[1] = Created(order.id, order.customer_id)
    /\ Len(emitted) = 2 => emitted[2].type = "Confirmed"
    /\ ret.op = "add_item" => order.events = old.events
    /\ ret.op \in {"add_item", "confirm", "total"} =>
            IsPrefix(old.events, order.events)

C20_Witness ==
    /\ Len(emitted) = 2
    /\ ret.op = "confirm"
    /\ ~IsOk(ret.res)
    /\ old.events = <<>>
    /\ old.status = "Confirmed"

(***************************************************************************)
(* Concurrent invocations of PlaceOrderHandler::handle                     *)
(***************************************************************************)
\* the quantity a command's items ask of the product with this id text
RECURSIVE QuantityOf(_, _)
QuantityOf(items, text) ==
    IF items = <<>> THEN 0
    ELSE (IF Head(items).product_id = text THEN Head(items).quantity ELSE 0)
         + QuantityOf(Tail(items), text)

\* the place of the first item of a command with this id text
FirstAt(items, text) ==
    CHOOSE k \in 1..Len(items) :
        /\ items[k].product_id = text
        /\ \A l \in 1..(k - 1) : items[l].product_id # text

\* the order holds exactly these command items: one line per product asked
\* for, in the order the products first appear, with the summed quantity and
\* the catalogue price
HoldsExactly(o, items) ==
    LET text(k) == Uuid_to_string(o.items[k].product_id)
    IN  /\ {text(k) : k \in 1..Len(o.items)}
               = {items[k].product_id : k \in 1..Len(items)}
        /\ \A k \in 1..Len(o.items) :
               /\ o.items[k].quantity = QuantityOf(items, text(k))
               /\ o.items[k].unit_price = Catalog(text(k)).val.price
               /\ \A l \in 1..(k - 1) :
                      FirstAt(items, text(l)) < FirstAt(items, text(k))

\* C21: each invocation of handle works on a fresh aggregate of its own. The
\* order repository is called through save only (saves is the whole record of
\* its calls), at most once per invocation; for any interleaving of two
\* invocations the orders they hold and the orders they save have distinct
\* ids, the order an invocation holds contains exactly the items of its own
\* command it has gone through so far, and the order it saves belongs to its
\* own customer and contains exactly the items of its own command.
C21_InvocationsIsolated ==
    /\ \A i \in Handlers :
          /\ Len(SavesBy(i)) <= 1
          /\ handlers[i].pc \in {"item", "save"} =>
                /\ handlers[i].order.id \in OrderIds
                /\ handlers[i].order.customer_id = handlers[i].cmd.customer_id[2]
                /\ HoldsExactly(handlers[i].order,
                                SubSeq(handlers[i].cmd.items, 1,
                                       handlers[i].idx - 1))
          /\ \A j \in Handlers \ {i} :
                handlers[i].order # NoOrder =>
                    handlers[i].order.id # handlers[j].order.id
    /\ \A k \in 1..Len(saves) :
          LET s == saves[k]
              cmd == handlers[s.by].cmd
          IN  /\ s.order.id = handlers[s.by].order.id
              /\ s.order.customer_id = cmd.customer_id[2]
              /\ s.order.status = "Draft"
              /\ HoldsExactly(s.order, cmd.items)
              /\ \A l \in 1..Len(saves) :
                    saves[l].by # s.by => saves[l].order.id # s.order.id

\* two invocations with different items, interleaved turn by turn, the second
\* saving first, both returning the id of their own order
C21_Witness ==
    /\ ReturnedOk(1) /\ ReturnedOk(2)
    /\ Len(saves) = 2
    /\ saves[1].by = 2 /\ saves[2].by = 1
    /\ Len(lookups) = 4
    /\ lookups[1].by = 1 /\ lookups[2].by = 2
    /\ lookups[3].by = 1 /\ lookups[4].by = 2
    /\ Len(saves[1].order.items) = 2
    /\ Len(saves[2].order.items) = 1
    /\ saves[2].order.items[1].quantity = 2
    /\ handlers[1].res.val # handlers[2].res.val

(***************************************************************************)
(* The frame of a merging add_item                                         *)
(***************************************************************************)
\* C22: when add_item is called for a product already in the order, the
\* number of items is unchanged; the item of that product stays at its
\* position, keeps its product_id and its unit_price (the price given when
\* the product was first added, whatever unit_price the merging call gives)
\* and its quantity grows by the quantity of the call; every other item, the
\* id, the customer, the status and the events are unchanged.
C22_MergeChangesOnlyQuantity ==
    (/\ ret.op = "add_item"
     /\ IsOk(ret.res)
     /\ find(old.items, ret.product_id) # 0) =>
        LET i == find(old.items, ret.product_id)
        IN  /\ Len(order.items) = Len(old.items)
            /\ order.items[i].product_id = ret.product_id
            /\ order.items[i].unit_price = old.items[i].unit_price
            /\ order.items[i].quantity = old.items[i].quantity + ret.quantity
            /\ \A j \in 1..Len(old.items) :
                  j # i => order.items[j] = old.items[j]
            /\ order.id = old.id
            /\ order.customer_id = old.customer_id
            /\ order.status = old.status
            /\ order.events = old.events

\* a merge into the first of two items, called with a unit_price of another
\* amount and currency than the item's
C22_Witness ==
    /\ ret.op = "add_item"
    /\ IsOk(ret.res)
    /\ Len(old.items) = 2
    /\ find(old.items, ret.product_id) = 1
    /\ ret.unit_price.amount # old.items[1].unit_price.amount
    /\ ret.unit_price.currency # old.items[1].unit_price.currency
    /\ order.items[1].unit_price = old.items[1].unit_price
    /\ order.items[1].quantity = old.items[1].quantity + ret.quantity
    /\ order.items[2] = old.items[2]

(***************************************************************************)
(* Placing an order without items                                          *)
(***************************************************************************)
\* C23: handle with a valid customer_id and an empty items list performs no
\* product lookup and goes from Order::create straight to save; when it has
\* returned, save was called exactly once, with an order of that customer
\* that has no items and is in Draft status, and the value returned is the
\* id of that order in text form (the save's own failure, returned as a
\* Repository error, is the only other outcome: the empty order is never
\* refused at placement). Emptiness is rejected by confirm: confirm on the
\* saved order fails with EmptyOrder.
C23_EmptyOrderPlaced ==
    \A i \in Handlers :
        (/\ handlers[i].pc # "idle"
         /\ CustomerId_from_string(handlers[i].cmd.customer_id).ok
         /\ handlers[i].cmd.items = <<>>) =>
            /\ LookupsBy(i) = <<>>
            /\ handlers[i].pc \in {"start", "save", "done"}
            /\ Returned(i) =>
                  /\ Len(SavesBy(i)) = 1
                  /\ LET s == SavesBy(i)[1]
                     IN  /\ s.order.items = <<>>
                         /\ s.order.status = "Draft"
                         /\ s.order.customer_id
                              = CustomerId_from_string(
                                    handlers[i].cmd.customer_id).val
                         /\ IF s.res.ok
                            THEN /\ ReturnedOk(i)
                                 /\ handlers[i].res.val
                                      = Uuid_to_string(s.order.id)
                            ELSE ReturnedErr(i, "Repository")
                         /\ IsErr(confirm(s.order).res, "EmptyOrder")

\* a command of a valid customer without items, placed: no lookup, one save
\* of an empty Draft order, its id returned
C23_Witness ==
    /\ handlers[1].cmd.items = <<>>
    /\ ReturnedOk(1)
    /\ lookups = <<>>
    /\ Len(saves) = 1
    /\ saves[1].res.ok
    /\ saves[1].order.items = <<>>
    /\ saves[1].order.status = "Draft"
    /\ handlers[1].res.val = Uuid_to_string(saves[1].order.id)

====
